---- MODULE Spec2Model ----
(***************************************************************************)
(* Model of the gateway (src/main.go): main() loads the usage counts from  *)
(* the MongoDB collection into usageData.Apps, then serves one route,      *)
(* "/{appID}", whose handler proxies the request to localhost:<port> and   *)
(* increments the usage count of that port under the usageData mutex.      *)
(***************************************************************************)
EXTENDS Integers, Sequences, FiniteSets, TLC

\* ------------------------------------------------------------------ bounds

\* Number of request goroutines (net/http starts one per inbound request).
NumHandlers == 2
Handlers == 1..NumHandlers

\* Number of redirects that http.DefaultClient follows for one request
\* (net/http stops after 10).
MaxRedirects == 1

\* ------------------------------------------------------- the environment

\* Ports that documents of the collection are keyed by.
StorePorts == {1, 2}

\* Counts that documents of the collection hold before startup.
StoreCounts == {0, 3}

\* A document of the collection.  decodes = FALSE is a document that
\* cursor.Decode rejects: its count field does not hold an integer (the
\* count of the model is then a placeholder).
Docs ==
    [port : StorePorts, count : StoreCounts, decodes : {TRUE}]
        \cup [port : StorePorts, count : {0}, decodes : {FALSE}]

DistinctPorts(s) == \A i, j \in DOMAIN s : s[i].port = s[j].port => i = j

\* The collection in cursor order; it is keyed by port.
Stores ==
    {s \in UNION {[1..n -> Docs] : n \in 0..Cardinality(StorePorts)} : DistinctPorts(s)}

\* The appID path segments that clients send, as character sequences.
AppIDs == { <<"a">>, <<"1", "a">>, <<"-", "1">>, <<"0">>, <<"1">>, <<"2">> }

\* What a listening backend answers.
BackendResponses ==
    { [status |-> 200, body |-> "ok"], [status |-> 503, body |-> "down"] }

\* A backend's answer that http.DefaultClient does not return but follows:
\* a redirect with a Location on localhost.
RedirectResponse == [status |-> 302, body |-> "moved"]

StatusBadRequest == 400
StatusInternalServerError == 500

NoResponse == [status |-> 0, body |-> ""]

\* ------------------------------------------------------------ strconv.Atoi

IsDigit(c) == c \in {"0", "1", "2", "3", "4", "5", "6", "7", "8", "9"}

DigitVal(c) ==
    CASE c = "0" -> 0 [] c = "1" -> 1 [] c = "2" -> 2 [] c = "3" -> 3
      [] c = "4" -> 4 [] c = "5" -> 5 [] c = "6" -> 6 [] c = "7" -> 7
      [] c = "8" -> 8 [] c = "9" -> 9

RECURSIVE DigitsVal(_, _)
DigitsVal(s, acc) ==
    IF s = <<>> THEN acc ELSE DigitsVal(Tail(s), acc * 10 + DigitVal(Head(s)))

\* strconv.Atoi: an optional sign followed by one or more decimal digits.
Atoi(s) ==
    LET signed == s # <<>> /\ Head(s) \in {"+", "-"}
        digits == IF signed THEN Tail(s) ELSE s
        ok     == digits # <<>> /\ \A i \in DOMAIN digits : IsDigit(digits[i])
        n      == IF ok THEN DigitsVal(digits, 0) ELSE 0
    IN  [err |-> ~ok,
         val |-> IF signed /\ Head(s) = "-" THEN 0 - n ELSE n]

\* ------------------------------------------------------------------- state

VARIABLES
    mainPc,     \* where main() is
    store,      \* the documents of the collection, in cursor order
    cursorPos,  \* number of documents the cursor has passed
    Apps,       \* usageData.Apps: port -> App
    mutex,      \* usageData's sync.Mutex: 0 when unlocked, else the holder
    initial,    \* history: the counts in Apps when serving began
    handlers    \* the request goroutines

vars == <<mainPc, store, cursorPos, Apps, mutex, initial, handlers>>

NoApps == [p \in {} |-> 0]

IdleHandler ==
    [pc       |-> "idle",
     appID      |-> <<>>,        \* chi.URLParam(r, "appID")
     port       |-> 0,
     first      |-> NoResponse,  \* what the backend answered to the outbound request
     upstream   |-> NoResponse,  \* resp of http.DefaultClient.Do
     response   |-> NoResponse,  \* what has been written to w
     count      |-> 0,           \* the value app.Count++ read
     update     |-> 0,           \* the count in the update document
     target     |-> 0,           \* the port of proxyURL
     gone       |-> FALSE,       \* the inbound client has disconnected
     outbound   |-> 0,           \* history: outbound requests given to the client
     increments |-> 0,           \* history: stores of app.Count++
     writes     |-> <<>>]        \* history: the UpdateOne calls issued

Init ==
    /\ mainPc = "connect"
    /\ store \in Stores
    /\ cursorPos = 0
    /\ Apps = NoApps
    /\ mutex = 0
    /\ initial = NoApps
    /\ handlers = [h \in Handlers |-> IdleHandler]

\* ----------------------------------------------------------------- startup

\* godotenv.Load, mongo.NewClient, client.Connect: each failure is log.Fatalf.
Connect ==
    /\ mainPc = "connect"
    /\ \E failed \in BOOLEAN : mainPc' = IF failed THEN "fatal" ELSE "find"
    /\ UNCHANGED <<store, cursorPos, Apps, mutex, initial, handlers>>

\* collection.Find(ctx, bson.M{}): an error is log.Fatalf.
Find ==
    /\ mainPc = "find"
    /\ \E failed \in BOOLEAN : mainPc' = IF failed THEN "fatal" ELSE "cursor"
    /\ UNCHANGED <<store, cursorPos, Apps, mutex, initial, handlers>>

\* Variant: app is declared outside the loop, so every entry of the map
\* points to the one App that the last Decode filled.
StoreAppAliased(apps, doc) ==
    [p \in DOMAIN apps \cup {doc.port} |-> [Port |-> doc.port, Count |-> doc.count]]

\* usageData.Apps[app.Port] = &app
StoreApp(apps, doc) ==
    [p \in DOMAIN apps \cup {doc.port} |->
        IF p = doc.port THEN [Port |-> doc.port, Count |-> doc.count] ELSE apps[p]]

\* One iteration of `for cursor.Next(ctx)`: a document that does not decode
\* is logged and skipped, any other is stored under the lock.
CursorNext ==
    /\ mainPc = "cursor"
    /\ cursorPos < Len(store)
    /\ mutex = 0
    /\ cursorPos' = cursorPos + 1
    /\ LET doc == store[cursorPos + 1]
       IN  Apps' = IF doc.decodes THEN StoreApp(Apps, doc) ELSE Apps
    /\ UNCHANGED <<mainPc, store, mutex, initial, handlers>>

\* Variant: cursor.Err() is not checked, the server starts with what it has.
CursorErrIgnored ==
    /\ mainPc = "cursor"
    /\ cursorPos < Len(store)
    /\ mainPc' = "serving"
    /\ initial' = [p \in DOMAIN Apps |-> Apps[p].Count]
    /\ UNCHANGED <<store, cursorPos, Apps, mutex, handlers>>

\* cursor.Next returns false because of an error: cursor.Err() is log.Fatalf.
CursorErr ==
    /\ mainPc = "cursor"
    /\ cursorPos < Len(store)
    /\ mainPc' = "fatal"
    /\ UNCHANGED <<store, cursorPos, Apps, mutex, initial, handlers>>

\* The cursor is exhausted, cursor.Err() is nil: the router is set up and
\* http.ListenAndServe starts serving.
ListenAndServe ==
    /\ mainPc = "cursor"
    /\ cursorPos = Len(store)
    /\ mainPc' = "serving"
    /\ initial' = [p \in DOMAIN Apps |-> Apps[p].Count]
    /\ UNCHANGED <<store, cursorPos, Apps, mutex, handlers>>

\* ------------------------------------------------------- the route handler

Set(h, r) == handlers' = [handlers EXCEPT ![h] = r]

\* A request for /{appID} arrives and gets its goroutine.  Goroutines are
\* interchangeable, so they are started in the order of their names.
Arrive(h) ==
    /\ mainPc = "serving"
    /\ handlers[h].pc = "idle"
    /\ \A g \in Handlers : g < h => handlers[g].pc # "idle"
    /\ \E id \in AppIDs : Set(h, [handlers[h] EXCEPT !.pc = "parse", !.appID = id])
    /\ UNCHANGED <<mainPc, store, cursorPos, Apps, mutex, initial>>

\* Variant: the err of strconv.Atoi is not checked.
RejectsNever(a) == FALSE

\* The condition under which the handler rejects the appID.
Rejects(a) == a.err

\* port, err := strconv.Atoi(appID); on err, 400 and return.
ParseAppID(h) ==
    /\ handlers[h].pc = "parse"
    /\ LET a == Atoi(handlers[h].appID)
       IN  IF Rejects(a)
           THEN Set(h, [handlers[h] EXCEPT
                    !.pc = "done",
                    !.response = [status |-> StatusBadRequest,
                                  body |-> "Invalid application ID"]])
           ELSE Set(h, [handlers[h] EXCEPT
                    !.pc = "newRequest", !.port = a.val])
    /\ UNCHANGED <<mainPc, store, cursorPos, Apps, mutex, initial>>

\* url.Parse accepts "http://localhost:<port>/..." iff the port is digits.
ValidURLPort(port) == port >= 0

\* Variant: usageData.Lock() is taken at the top of the handler, before
\* proxyRequest.
NewRequestLocked(h) ==
    /\ handlers[h].pc = "newRequest"
    /\ mutex = 0
    /\ mutex' = h
    /\ IF handlers[h].port >= 0
       THEN Set(h, [handlers[h] EXCEPT !.pc = "do", !.outbound = @ + 1])
       ELSE Set(h, [handlers[h] EXCEPT
                !.pc = "lock",
                !.response = [status |-> StatusInternalServerError,
                              body |-> "Error creating request"]])
    /\ UNCHANGED <<mainPc, store, cursorPos, Apps, initial>>

\* proxyRequest: http.NewRequest; on err, 500 and return to the handler.
NewRequest(h) ==
    /\ handlers[h].pc = "newRequest"
    /\ IF ValidURLPort(handlers[h].port)
       THEN Set(h, [handlers[h] EXCEPT
                !.pc = "do", !.outbound = @ + 1, !.target = handlers[h].port])
       ELSE Set(h, [handlers[h] EXCEPT
                !.pc = "lock",
                !.response = [status |-> StatusInternalServerError,
                              body |-> "Error creating request"]])
    /\ UNCHANGED <<mainPc, store, cursorPos, Apps, mutex, initial>>

\* proxyRequest: http.DefaultClient.Do fails; 500 and return to the handler.
\* Nothing listens on port 0, so there Do always fails.
DoError(h) ==
    /\ handlers[h].pc = "do"
    /\ Set(h, [handlers[h] EXCEPT
           !.pc = "lock",
           !.response = [status |-> StatusInternalServerError,
                         body |-> "Error forwarding request"]])
    /\ UNCHANGED <<mainPc, store, cursorPos, Apps, mutex, initial>>

\* Variant: usageData.Lock() is taken inside proxyRequest, before the
\* response is relayed.
DoResponseLocked(h) ==
    /\ handlers[h].pc = "do"
    /\ handlers[h].target > 0
    /\ mutex = 0
    /\ mutex' = h
    /\ \E r \in BackendResponses :
          Set(h, [handlers[h] EXCEPT !.pc = "relay", !.upstream = r, !.first = r])
    /\ UNCHANGED <<mainPc, store, cursorPos, Apps, initial>>

\* Variant: the usage is counted as soon as the backend has answered, before
\* the response is relayed.
DoResponseCounting(h) ==
    /\ handlers[h].pc = "do"
    /\ handlers[h].target > 0
    /\ \E r \in BackendResponses :
          Set(h, [handlers[h] EXCEPT
              !.pc = "relay", !.upstream = r, !.first = r,
              !.increments = IF handlers[h].port \in DOMAIN Apps THEN @ + 1 ELSE @])
    /\ Apps' = IF handlers[h].port \in DOMAIN Apps
               THEN [Apps EXCEPT ![handlers[h].port].Count = @ + 1]
               ELSE Apps
    /\ UNCHANGED <<mainPc, store, cursorPos, mutex, initial>>

\* proxyRequest: http.DefaultClient.Do returns the response of the backend
\* it asked last.
DoResponse(h) ==
    /\ handlers[h].pc = "do"
    /\ handlers[h].target > 0
    /\ \E r \in BackendResponses :
          Set(h, [handlers[h] EXCEPT
              !.pc = "relay", !.upstream = r,
              !.first = IF @ = NoResponse THEN r ELSE @])
    /\ UNCHANGED <<mainPc, store, cursorPos, Apps, mutex, initial>>

\* proxyRequest: inside http.DefaultClient.Do the backend answers with a
\* redirect to another port of localhost; the client's default policy is to
\* follow it with a further request and not to return the redirect.
DoRedirect(h) ==
    /\ handlers[h].pc = "do"
    /\ handlers[h].target > 0
    /\ handlers[h].outbound <= MaxRedirects
    /\ \E q \in StorePorts \ {handlers[h].target} :
          Set(h, [handlers[h] EXCEPT
              !.outbound = @ + 1, !.target = q,
              !.first = IF @ = NoResponse THEN RedirectResponse ELSE @])
    /\ UNCHANGED <<mainPc, store, cursorPos, Apps, mutex, initial>>

\* The inbound client closes its connection while http.DefaultClient.Do is
\* waiting for the backend.  The outbound request was built by
\* http.NewRequest, without r.Context(): nothing in proxyRequest reacts.
ClientDisconnect(h) ==
    /\ handlers[h].pc = "do"
    /\ ~handlers[h].gone
    /\ Set(h, [handlers[h] EXCEPT !.gone = TRUE])
    /\ UNCHANGED <<mainPc, store, cursorPos, Apps, mutex, initial>>

\* proxyRequest: copy headers, w.WriteHeader(resp.StatusCode), io.Copy.
Relay(h) ==
    /\ handlers[h].pc = "relay"
    /\ Set(h, [handlers[h] EXCEPT !.pc = "lock", !.response = handlers[h].upstream])
    /\ UNCHANGED <<mainPc, store, cursorPos, Apps, mutex, initial>>

\* Variant: Lock never blocks (the increment is not mutually exclusive).
CanLockAlways(h) == TRUE

\* sync.Mutex: Lock blocks while another goroutine holds the mutex.
CanLock(h) == mutex = 0

\* usageData.Lock()
Lock(h) ==
    /\ handlers[h].pc = "lock"
    /\ CanLock(h)
    /\ mutex' = h
    /\ Set(h, [handlers[h] EXCEPT !.pc = "lookup"])
    /\ UNCHANGED <<mainPc, store, cursorPos, Apps, initial>>

\* Variant: a miss creates the record and counts the request.
LookupCreating(h) ==
    /\ handlers[h].pc = "lookup"
    /\ LET port == handlers[h].port
       IN  IF port \in DOMAIN Apps
           THEN /\ Set(h, [handlers[h] EXCEPT
                       !.pc = "increment", !.count = Apps[port].Count])
                /\ Apps' = Apps
           ELSE /\ Set(h, [handlers[h] EXCEPT !.pc = "increment", !.count = 0])
                /\ Apps' = [p \in DOMAIN Apps \cup {port} |->
                               IF p = port THEN [Port |-> port, Count |-> 0]
                               ELSE Apps[p]]
    /\ UNCHANGED <<mainPc, store, cursorPos, mutex, initial>>

\* Variant: the miss branch returns without usageData.Unlock().
LookupLeaking(h) ==
    /\ handlers[h].pc = "lookup"
    /\ IF handlers[h].port \in DOMAIN Apps
       THEN Set(h, [handlers[h] EXCEPT
                !.pc = "increment", !.count = Apps[handlers[h].port].Count])
       ELSE Set(h, [handlers[h] EXCEPT !.pc = "done"])
    /\ UNCHANGED <<mainPc, store, cursorPos, Apps, mutex, initial>>

\* if app, ok := usageData.Apps[port]; ok { (read of app.Count++) } else { log }
Lookup(h) ==
    /\ handlers[h].pc = "lookup"
    /\ IF handlers[h].port \in DOMAIN Apps
       THEN Set(h, [handlers[h] EXCEPT
                !.pc = "increment", !.count = Apps[handlers[h].port].Count])
       ELSE Set(h, [handlers[h] EXCEPT !.pc = "unlock"])
    /\ UNCHANGED <<mainPc, store, cursorPos, Apps, mutex, initial>>

\* Variant: the request is counted twice.
IncrementedTwice(c) == c + 2

\* The value app.Count++ stores, given the value it read.
Incremented(c) == c + 1

\* Variant: the update document is built from the count before app.Count++.
UpdateCountStale(app) == app.Count - 1

\* update := bson.M{"$set": bson.M{"count": app.Count}}
UpdateCount(app) == app.Count

\* app.Count++ (the store of the incremented value), then filter and update
\* are built from port and app.Count.
Increment(h) ==
    /\ handlers[h].pc = "increment"
    /\ Apps' = [Apps EXCEPT ![handlers[h].port].Count = Incremented(handlers[h].count)]
    /\ Set(h, [handlers[h] EXCEPT
           !.pc = "update", !.increments = @ + 1,
           !.update = UpdateCount(Apps'[handlers[h].port])])
    /\ UNCHANGED <<mainPc, store, cursorPos, mutex, initial>>

\* Variant: the update carries one more than the count.
SetCountAhead(s, port, count) ==
    [i \in DOMAIN s |->
        IF s[i].port = port /\ \A j \in 1..(i - 1) : s[j].port # port
        THEN [s[i] EXCEPT !.count = count + 1]
        ELSE s[i]]

\* $set count on the first document that matches the filter {"port": port}.
SetCount(s, port, count) ==
    [i \in DOMAIN s |->
        IF s[i].port = port /\ \A j \in 1..(i - 1) : s[j].port # port
        THEN [s[i] EXCEPT !.count = count]
        ELSE s[i]]

\* Variant: a failed UpdateOne takes the increment back.
UpdateOneRollback(h) ==
    /\ handlers[h].pc = "update"
    /\ LET port  == handlers[h].port
           count == handlers[h].update
       IN  \E failed \in BOOLEAN :
              /\ store' = IF failed THEN store ELSE SetCount(store, port, count)
              /\ Apps' = IF failed THEN [Apps EXCEPT ![port].Count = @ - 1] ELSE Apps
              /\ Set(h, [handlers[h] EXCEPT
                     !.pc = "unlock",
                     !.writes = Append(@, [port |-> port, count |-> count,
                                           failed |-> failed])])
    /\ UNCHANGED <<mainPc, cursorPos, mutex, initial>>

\* collection.UpdateOne(updateCtx, filter, update); an error is logged and
\* nothing else.
UpdateOne(h) ==
    /\ handlers[h].pc = "update"
    /\ LET port  == handlers[h].port
           count == handlers[h].update
       IN  \E failed \in BOOLEAN :
              /\ store' = IF failed THEN store ELSE SetCount(store, port, count)
              /\ Set(h, [handlers[h] EXCEPT
                     !.pc = "unlock",
                     !.writes = Append(@, [port |-> port, count |-> count,
                                           failed |-> failed])])
    /\ UNCHANGED <<mainPc, cursorPos, Apps, mutex, initial>>

\* usageData.Unlock(), then the handler returns.
Unlock(h) ==
    /\ handlers[h].pc = "unlock"
    /\ mutex' = 0
    /\ Set(h, [handlers[h] EXCEPT !.pc = "done"])
    /\ UNCHANGED <<mainPc, store, cursorPos, Apps, initial>>

Handler(h) ==
    \/ Arrive(h) \/ ParseAppID(h) \/ NewRequest(h) \/ DoError(h) \/ DoResponse(h)
    \/ Relay(h) \/ Lock(h) \/ Lookup(h) \/ Increment(h) \/ UpdateOne(h) \/ Unlock(h)

Next ==
    \/ Connect \/ Find \/ CursorNext \/ CursorErr \/ ListenAndServe
    \/ \E h \in Handlers : Handler(h)

\* Clients that stay connected and backends that answer for themselves.
Spec == Init /\ [][Next]_vars

\* The steps of a handler once its request has arrived.
Run(h) ==
    \/ ParseAppID(h) \/ NewRequest(h) \/ DoError(h) \/ DoResponse(h)
    \/ Relay(h) \/ Lock(h) \/ Lookup(h) \/ Increment(h) \/ UpdateOne(h) \/ Unlock(h)

\* The Go scheduler runs every runnable goroutine, http.DefaultClient.Do
\* returns, UpdateOne returns (its context has a timeout of 20 s), and a
\* goroutine blocked in Lock proceeds once the mutex stays free.
\* The collection is one in which port 1 has a record and the document of
\* port 2 does not decode, so that requests take the found and the miss path.
InitFair ==
    /\ Init
    /\ store = <<[port |-> 1, count |-> 3, decodes |-> TRUE],
                 [port |-> 2, count |-> 0, decodes |-> FALSE]>>

SpecFair == InitFair /\ [][Next]_vars /\ \A h \in Handlers : WF_vars(Run(h))

\* The same server with clients that may disconnect and backends that may
\* redirect.
NextEnv ==
    \/ Next
    \/ \E h \in Handlers : DoRedirect(h) \/ ClientDisconnect(h)

SpecEnv == Init /\ [][NextEnv]_vars

\* ------------------------------------------------------------ vocabulary

\* The handler has left the route handler function.
Finished(h) == handlers[h].pc = "done"

\* The handler's request is for the port p (its appID parsed to p).
Targets(h, p) == handlers[h].pc \notin {"idle", "parse"} /\ ~Atoi(handlers[h].appID).err
                    /\ handlers[h].port = p

\* The backend answered the handler's outbound request.
ForwardSucceeded(h) == handlers[h].upstream # NoResponse

\* proxyRequest answered 500 itself: NewRequest or Do returned an error.
ForwardFailed(h) ==
    /\ handlers[h].pc \in {"lock", "lookup", "increment", "update", "unlock", "done"}
    /\ handlers[h].upstream = NoResponse
    /\ ~Atoi(handlers[h].appID).err

\* h is the only request the server has seen.
Alone(h) == \A g \in Handlers \ {h} : handlers[g].pc = "idle"

\* The handler is inside proxyRequest.
InForward(h) == handlers[h].pc \in {"newRequest", "do", "relay"}

\* The handler is inside collection.UpdateOne.
InWrite(h) == handlers[h].pc = "update"

\* The count the collection holds for the port p.
Durable(p) == LET i == CHOOSE i \in DOMAIN store : store[i].port = p IN store[i].count

\* The segment is a decimal integer: an optional sign, then digits only.
IsInteger(s) ==
    LET d == IF s # <<>> /\ s[1] \in {"+", "-"} THEN SubSeq(s, 2, Len(s)) ELSE s
    IN  d # <<>> /\ \A i \in DOMAIN d : d[i] \in {"0", "1", "2", "3", "4", "5", "6", "7", "8", "9"}

\* The segment is a decimal integer greater than zero.
IsPositiveInteger(s) ==
    /\ IsInteger(s)
    /\ s[1] # "-"
    /\ \E i \in DOMAIN s : s[i] \in {"1", "2", "3", "4", "5", "6", "7", "8", "9"}

\* ------------------------------------------------------------------ claims

\* C1: for every port with a record, once the N handlers that target the port
\* have all finished, each after a successful forward, the record's count is
\* its count at the start of serving plus exactly N.
C1_NoLostIncrement ==
    \A p \in DOMAIN initial :
        LET hs == {h \in Handlers : Targets(h, p)}
        IN  (\A h \in hs : Finished(h) /\ ForwardSucceeded(h))
                => Apps[p].Count = initial[p] + Cardinality(hs)

\* C1 witness: two handlers have finished successful forwards to one port.
C1_Witness ==
    \E p \in DOMAIN initial :
        /\ \A h \in Handlers : Targets(h, p) /\ Finished(h) /\ ForwardSucceeded(h)
        /\ Apps[p].Count = initial[p] + NumHandlers

\* C2 (as claimed): after a forward to a registered port failed in NewRequest
\* or Do, the client has 500, the handler has issued no UpdateOne and has not
\* changed the count.
C2_FailedForwardLeavesCount ==
    \A h \in Handlers :
        (Finished(h) /\ ForwardFailed(h) /\ handlers[h].port \in DOMAIN Apps)
            => /\ handlers[h].response.status = StatusInternalServerError
               /\ handlers[h].writes = <<>>
               /\ handlers[h].increments = 0
               /\ Alone(h) => Apps[handlers[h].port].Count = initial[handlers[h].port]

\* C3 (as claimed): a request whose appID is not a positive integer makes no
\* outbound request, changes no count, issues no UpdateOne and ends with 400.
C3_NonPositiveRejected ==
    \A h \in Handlers :
        (handlers[h].pc # "idle" /\ ~IsPositiveInteger(handlers[h].appID))
            => /\ handlers[h].outbound = 0
               /\ handlers[h].increments = 0
               /\ handlers[h].writes = <<>>
               /\ Alone(h) => \A p \in DOMAIN Apps : Apps[p].Count = initial[p]
               /\ Finished(h) => handlers[h].response.status = StatusBadRequest

\* C3 (amended): a request whose appID is not a decimal integer makes no
\* outbound request, changes no count, issues no UpdateOne and ends with 400.
C3_NonIntegerRejected ==
    \A h \in Handlers :
        (handlers[h].pc # "idle" /\ ~IsInteger(handlers[h].appID))
            => /\ handlers[h].outbound = 0
               /\ handlers[h].increments = 0
               /\ handlers[h].writes = <<>>
               /\ Alone(h) => \A p \in DOMAIN Apps : Apps[p].Count = initial[p]
               /\ Finished(h) => handlers[h].response.status = StatusBadRequest

\* C3 witness: a request with a non-numeric appID has been answered 400.
C3_Witness ==
    \E h \in Handlers :
        /\ Finished(h)
        /\ handlers[h].appID = <<"1", "a">>
        /\ handlers[h].response.status = StatusBadRequest

C5_UnknownPortForwardedUncounted ==
    \A h \in Handlers :
        (Finished(h) /\ ~Atoi(handlers[h].appID).err /\ handlers[h].port \notin DOMAIN initial)
            => /\ handlers[h].port >= 0 => handlers[h].outbound >= 1
               /\ ForwardSucceeded(h) => handlers[h].response = handlers[h].upstream
               /\ DOMAIN Apps = DOMAIN initial
               /\ handlers[h].increments = 0
               /\ handlers[h].writes = <<>>
               /\ Alone(h) => \A p \in DOMAIN Apps : Apps[p].Count = initial[p]

\* C5 witness: a request for a port without a record got the backend's
\* response while another port has a record.
C5_Witness ==
    \E h \in Handlers :
        /\ Finished(h) /\ ForwardSucceeded(h)
        /\ handlers[h].port \notin DOMAIN Apps
        /\ handlers[h].response = handlers[h].upstream
        /\ Apps # NoApps

\* C6: for every port with a record, the count in memory is at least the
\* count the collection holds for that port.
C6_MemoryNotBehindStore ==
    \A p \in DOMAIN Apps : Apps[p].Count >= Durable(p)

\* C6 witness: after a failed UpdateOne the collection lags behind the
\* record, and another handler's UpdateOne has succeeded.
C6_Witness ==
    \E h, g \in Handlers :
        /\ Finished(h) /\ handlers[h].writes # <<>> /\ handlers[h].writes[1].failed
        /\ Finished(g) /\ handlers[g].writes # <<>> /\ ~handlers[g].writes[1].failed
        /\ Apps[handlers[h].port].Count > Durable(handlers[h].port)
        /\ Apps[handlers[g].port].Count = Durable(handlers[g].port)

\* C7: a handler that finished a successful forward to a port whose record
\* had the count c has stored c+1 and has issued exactly one UpdateOne, for
\* that port and with the count c+1.
C7_OneIncrementOneWrite ==
    \A h \in Handlers :
        (Finished(h) /\ ForwardSucceeded(h) /\ handlers[h].port \in DOMAIN Apps)
            => LET r == handlers[h]
               IN  /\ r.increments = 1
                   /\ Len(r.writes) = 1
                   /\ r.writes[1].port = r.port
                   /\ r.writes[1].count = r.count + 1
                   /\ Apps[r.port].Count >= r.count + 1
                   /\ Alone(h) => /\ r.count = initial[r.port]
                                  /\ Apps[r.port].Count = r.count + 1

\* C7 witness: the only request, to a port whose record had the count 3, has
\* finished; the record has 4 and the one UpdateOne carried 4.
C7_Witness ==
    \E h \in Handlers :
        /\ Finished(h) /\ ForwardSucceeded(h) /\ Alone(h)
        /\ handlers[h].port \in DOMAIN Apps
        /\ initial[handlers[h].port] = 3
        /\ Apps[handlers[h].port].Count = 4
        /\ handlers[h].writes = <<[port |-> handlers[h].port, count |-> 4, failed |-> FALSE]>>

\* C8: UpdateOne and what follows it never change the response; a failing
\* UpdateOne leaves the incremented count in the record and the collection
\* as it was, and the handler goes on to Unlock without a second UpdateOne.
C8_FailedWriteChangesNothing ==
    [][\A h \in Handlers :
          LET r == handlers[h]
              q == handlers'[h]
          IN  /\ r.pc \in {"update", "unlock", "done"} => q.response = r.response
              /\ r.pc \in {"unlock", "done"} => q.pc \in {"unlock", "done"} /\ q.writes = r.writes
              /\ (r.pc = "update" /\ q.pc # "update" /\ q.writes[Len(q.writes)].failed)
                    => /\ q.pc = "unlock"
                       /\ Len(q.writes) = 1
                       /\ Apps' = Apps
                       /\ Apps'[r.port].Count = r.count + 1
                       /\ store' = store]_vars

\* C8 witness: the only request finished after its UpdateOne failed; the
\* client has the backend's response, the record has the incremented count
\* and the collection has the count from before.
C8_Witness ==
    \E h \in Handlers :
        /\ Finished(h) /\ Alone(h) /\ ForwardSucceeded(h)
        /\ handlers[h].writes # <<>> /\ handlers[h].writes[1].failed
        /\ handlers[h].response = handlers[h].upstream
        /\ Apps[handlers[h].port].Count = initial[handlers[h].port] + 1
        /\ Durable(handlers[h].port) = initial[handlers[h].port]

C10_LoadedRegistryIsStore ==
    (/\ mainPc = "serving"
     /\ \A h \in Handlers : handlers[h].pc = "idle"
     /\ DistinctPorts(store)
     /\ \A i \in DOMAIN store : store[i].decodes)
        => /\ DOMAIN Apps = {store[i].port : i \in DOMAIN store}
           /\ \A i \in DOMAIN store :
                 Apps[store[i].port] = [Port |-> store[i].port, Count |-> store[i].count]

\* C10 witness: the registry after the load of <<{1, 3}, {2, 0}>>: port 1 has
\* the count 3, port 2 the count 0, and no other port has a record.
C10_Witness ==
    /\ mainPc = "serving"
    /\ \A h \in Handlers : handlers[h].pc = "idle"
    /\ store = <<[port |-> 1, count |-> 3, decodes |-> TRUE],
                 [port |-> 2, count |-> 0, decodes |-> TRUE]>>
    /\ DOMAIN Apps = {1, 2}
    /\ Apps[1].Count = 3 /\ Apps[2].Count = 0

\* C11 (as claimed): whatever the backend answered to the outbound request,
\* once proxyRequest has returned the client has that status and body, and
\* the finished handler has counted the request once if the port has a
\* record.
C11_AnyStatusRelayedAndCounted ==
    \A h \in Handlers :
        LET r == handlers[h]
        IN  (r.first # NoResponse /\ r.pc \notin {"do", "relay"})
                => /\ r.response = r.first
                   /\ (Finished(h) /\ r.port \in DOMAIN Apps) => r.increments = 1

\* C12: a handler reads and stores the count only after proxyRequest has
\* returned, that is after it has written its response.
C12_IncrementAfterRelay ==
    \A h \in Handlers :
        LET r == handlers[h]
        IN  /\ (InForward(h) \/ r.pc \in {"idle", "parse", "lock"}) => r.increments = 0
            /\ (r.increments > 0 \/ r.pc = "increment")
                  => /\ r.response # NoResponse
                     /\ ForwardSucceeded(h) => r.response = r.upstream

\* C12 witness: a handler has just stored the incremented count; the
\* backend's response is already relayed.
C12_Witness ==
    \E h \in Handlers :
        /\ handlers[h].pc = "update"
        /\ handlers[h].increments = 1
        /\ ForwardSucceeded(h)
        /\ handlers[h].response = handlers[h].upstream

\* C13: once serving has begun, no step adds, removes or rekeys a record, and
\* a step that changes a record changes one record only, by adding 1 to its
\* count, and is the app.Count++ of a handler for that port.
C13_RecordsFixedCountsStepByOne ==
    [][mainPc = "serving" =>
          /\ DOMAIN Apps' = DOMAIN Apps
          /\ \A p \in DOMAIN Apps : Apps[p].Port = p /\ Apps'[p].Port = p
          /\ \A p \in DOMAIN Apps :
                Apps'[p] # Apps[p] =>
                   /\ Apps'[p].Count = Apps[p].Count + 1
                   /\ \A q \in DOMAIN Apps \ {p} : Apps'[q] = Apps[q]
                   /\ \E h \in Handlers :
                         /\ handlers[h].pc = "increment" /\ handlers[h].port = p
                         /\ handlers'[h].pc = "update"]_vars

\* C13 witness: two handlers have counted a request each for one port; the
\* registry has the ports it had when serving began.
C13_Witness ==
    /\ mainPc = "serving"
    /\ DOMAIN Apps = DOMAIN initial
    /\ \E p \in DOMAIN Apps :
          /\ Apps[p].Port = p
          /\ Apps[p].Count = initial[p] + 2
          /\ \A h \in Handlers : handlers[h].port = p /\ handlers[h].increments = 1

\* C14: when the N handlers that target a port with a record have all
\* finished after successful forwards, the counts their UpdateOne calls
\* carried are exactly initial+1 .. initial+N, one handler per value.
C14_GapFreeCounts ==
    \A p \in DOMAIN initial :
        LET hs == {h \in Handlers : Targets(h, p)}
        IN  (\A h \in hs : Finished(h) /\ ForwardSucceeded(h))
                => /\ \A h \in hs : Len(handlers[h].writes) = 1
                   /\ {handlers[h].writes[1].count : h \in hs}
                         = (initial[p] + 1)..(initial[p] + Cardinality(hs))
                   /\ \A h, g \in hs :
                         handlers[h].writes[1].count = handlers[g].writes[1].count => h = g

\* C14 witness: two requests for one port have finished after successful
\* forwards; the one that arrived second obtained the first count.
C14_Witness ==
    \E p \in DOMAIN initial :
        /\ \A h \in Handlers : Targets(h, p) /\ Finished(h) /\ ForwardSucceeded(h)
        /\ handlers[2].writes[1].count = initial[p] + 1
        /\ handlers[1].writes[1].count = initial[p] + 2

\* C15 (as claimed): a request whose appID is a positive integer causes
\* exactly one outbound request, to the port the appID names, whether or not
\* the forward succeeds.
C15_OneOutboundRequest ==
    \A h \in Handlers :
        LET r == handlers[h]
        IN  (r.pc # "idle" /\ IsPositiveInteger(r.appID))
                => /\ r.outbound <= 1
                   /\ r.pc \notin {"parse", "newRequest"}
                         => r.outbound = 1 /\ r.target = Atoi(r.appID).val

\* C16 (as claimed): when the client has disconnected while the outbound
\* request was in flight, the request is canceled: Do ends with an error and
\* no response of the backend is taken.
C16_DisconnectCancelsOutbound ==
    \A h \in Handlers :
        (handlers[h].gone /\ handlers[h].pc # "do") => ForwardFailed(h)

\* The handlers a and b serve requests for different ports.
DifferentPorts(a, b) ==
    /\ a # b
    /\ Targets(a, handlers[a].port)
    /\ Targets(b, handlers[b].port)
    /\ handlers[a].port # handlers[b].port

C18_DurableCountNeverDecreases ==
    [][/\ DOMAIN store' = DOMAIN store
       /\ \A i \in DOMAIN store :
             /\ store'[i].port = store[i].port
             /\ store'[i].count >= store[i].count]_vars

\* C18 witness: two UpdateOne calls for one port have been applied one after
\* the other; the collection holds the second count.
C18_Witness ==
    \E p \in DOMAIN initial :
        /\ Durable(p) = initial[p] + 2
        /\ \A h \in Handlers :
              /\ Finished(h) /\ handlers[h].port = p
              /\ handlers[h].writes # <<>> /\ ~handlers[h].writes[1].failed

\* The UpdateOne calls issued so far for the port p.
WritesFor(p) ==
    {handlers[h].writes[1] : h \in {g \in Handlers : handlers[g].writes # <<>>
                                                      /\ handlers[g].writes[1].port = p}}

\* The UpdateOne call issued last for the port p: calls for one port are
\* issued under the mutex with increasing counts.
LastWriteFor(p) == CHOOSE w \in WritesFor(p) : \A v \in WritesFor(p) : v.count <= w.count

\* C19: whenever no handler is between its app.Count++ and the return of its
\* UpdateOne, and the UpdateOne issued last for a port succeeded, the
\* collection holds the count that is in memory for that port.
C19_DurableEqualsMemoryAfterSuccess ==
    (\A h \in Handlers : handlers[h].pc # "update")
        => \A p \in DOMAIN Apps :
              (WritesFor(p) # {} /\ ~LastWriteFor(p).failed) => Durable(p) = Apps[p].Count

\* C19 witness: the first UpdateOne for a port failed and the second one
\* succeeded; the collection has caught up with the count in memory.
C19_Witness ==
    \E p \in DOMAIN Apps : \E h, g \in Handlers :
        /\ Finished(h) /\ Finished(g)
        /\ handlers[h].writes = <<[port |-> p, count |-> initial[p] + 1, failed |-> TRUE]>>
        /\ handlers[g].writes = <<[port |-> p, count |-> initial[p] + 2, failed |-> FALSE]>>
        /\ Durable(p) = Apps[p].Count
        /\ Apps[p].Count = initial[p] + 2

\* C20: under SpecFair a held mutex is eventually released, and every
\* handler whose request has arrived eventually returns, on the found and on
\* the miss path, whether UpdateOne succeeds or fails.
C20_LockReleasedHandlersFinish ==
    /\ (mutex # 0) ~> (mutex = 0)
    /\ \A h \in Handlers : (handlers[h].pc # "idle") ~> Finished(h)

\* C20 witness: a handler on the miss path and a handler whose UpdateOne
\* failed have both returned, and the mutex is free.
C20_Witness ==
    /\ mutex = 0
    /\ \E h, g \in Handlers :
          /\ Finished(h) /\ handlers[h].port = 2 /\ handlers[h].port \notin DOMAIN Apps
          /\ ForwardSucceeded(h)
          /\ Finished(g) /\ handlers[g].writes # <<>> /\ handlers[g].writes[1].failed

====
